---- MODULE Spec2Model ----
(***************************************************************************)
(* Model of utils/reconstruction.py of SS-APACT: the delay schedule        *)
(* (get_delays), the attention weights (get_weights) and the delay-and-sum *)
(* beamformer (delay_and_sum).                                             *)
(*                                                                         *)
(* Numbers.  Floating-point values are modelled by exact rationals         *)
(* [n |-> numerator, d |-> denominator] in lowest terms, or by integers     *)
(* where the inputs are chosen so that every intermediate value is an      *)
(* integer.  Rounding error of the floating-point operations is not        *)
(* modelled.                                                                *)
(***************************************************************************)
EXTENDS Integers, Sequences, FiniteSets, TLC

VARIABLES
    fn,           \* the function that is called
    args,         \* the arguments of the call
    ret,          \* what the call produced: nothing yet, a value or an exception
    pc,           \* delay_and_sum: position in the function body
    Image,        \* delay_and_sum: the memory of Image, row-major
    related_data, \* delay_and_sum: the scratch array allocated before the loops
    s, t, k,      \* delay_and_sum: the loop counters
    outside,      \* delay_and_sum: the indices [t, s] written outside Image's shape
    iter,         \* parallel loop: per worker, the iteration it is running
    todo          \* parallel loop: the grid points no worker has taken yet

callVars == <<fn, args, ret>>
dasVars == <<pc, Image, related_data, s, t, k, outside>>
parVars == <<iter, todo>>
vars == <<fn, args, ret, pc, Image, related_data, s, t, k, outside, iter, todo>>

(***************************************************************************)
(* Bounds of the model.                                                    *)
(***************************************************************************)
MaxDelays == 3      \* largest n_delays / longest delays array
MaxPixels == 3      \* largest number of pixels of a C0 field
MaxSamples == 2     \* largest number of samples per transducer
MaxGrid == 2        \* longest grid vector

(***************************************************************************)
(* Rational arithmetic.                                                    *)
(***************************************************************************)
Abs(a) == IF a < 0 THEN -a ELSE a

RECURSIVE GCD(_, _)
GCD(a, b) == IF b = 0 THEN a ELSE GCD(b, a % b)

Rat(n, d) ==
    LET g == GCD(Abs(n), Abs(d))
        sg == IF d < 0 THEN -1 ELSE 1
    IN  [n |-> (sg * n) \div g, d |-> (sg * d) \div g]

RatInt(i) == [n |-> i, d |-> 1]
RatAdd(p, q) == Rat(p.n * q.d + q.n * p.d, p.d * q.d)
RatMul(p, q) == Rat(p.n * q.n, p.d * q.d)
RatDiv(p, q) == Rat(p.n * q.d, p.d * q.n)
RatLeq(p, q) == p.n * q.d <= q.n * p.d
RatPos(p) == p.n > 0

RECURSIVE RatSumSeq(_)
RatSumSeq(sq) ==
    IF sq = <<>> THEN RatInt(0) ELSE RatAdd(Head(sq), RatSumSeq(Tail(sq)))

(***************************************************************************)
(* numpy helpers.  Arrays are 1-based sequences here; index i of the model *)
(* is index i-1 of the code.                                               *)
(***************************************************************************)
\* np.linspace(start, stop, num) with endpoint=True, for rational start and
\* stop: num samples, step (stop-start)/(num-1), the last one set to stop;
\* a single sample is start.
Linspace(start, stop, num) ==
    LET delta == RatAdd(stop, RatMul(RatInt(-1), start))
    IN  [i \in 1..num |->
            IF num > 1 /\ i = num THEN stop
            ELSE IF num > 1
                 THEN RatAdd(start, RatMul(Rat(i - 1, num - 1), delta))
                 ELSE start]

\* An array of shape (n, h, w) is a record of its shape and its entries
\* v[i][hh][ww], all indices 1-based.  Flatten is its row-major flattening.
Flatten(arr) ==
    [f \in 1..(arr.n * arr.h * arr.w) |->
        arr.v[((f - 1) \div (arr.h * arr.w)) + 1]
             [(((f - 1) \div arr.w) % arr.h) + 1]
             [((f - 1) % arr.w) + 1]]

\* np.argmax in the place of np.argmin.
ArgMin_asArgMax(sq) ==
    CHOOSE i \in 1..Len(sq) :
        /\ \A j \in 1..Len(sq) : sq[i] >= sq[j]
        /\ \A j \in 1..(i - 1) : sq[j] < sq[i]

\* np.argmin of a non-empty flat sequence of integers: the first position
\* holding the minimum (1-based).
ArgMin(sq) ==
    CHOOSE i \in 1..Len(sq) :
        /\ \A j \in 1..Len(sq) : sq[i] <= sq[j]
        /\ \A j \in 1..(i - 1) : sq[j] > sq[i]

\* np.exp on the squared distances that occur, (delay - C0)^2 \in {0, 1, 4},
\* rounded to one decimal.
Exp(d) ==
    CASE d = 0 -> Rat(10, 10)
      [] d = 1 -> Rat(27, 10)
      [] d = 4 -> Rat(546, 10)

(***************************************************************************)
(* Values passed to and returned by the functions.                        *)
(***************************************************************************)
Value(v) == [kind |-> "value", val |-> v]
Raise(e) == [kind |-> "raise", exc |-> e]
NoResult == [kind |-> "none"]

Modes == {"uniform", "quadric", "Uniform", "linear", ""}
Attentions == {"uniform", "onehot", "euclidean", "Euclidean", "softmax"}

Radii == 0..2          \* R
Speeds == 1..3         \* v0 and v1
DelayVals == {0, 1, 2} \* entries of a delays array
C0Vals == {0, 1, 2}    \* values of C0

\* The delays arrays: every sequence over DelayVals of length 0..MaxDelays.
DelayArrays == UNION {[1..n -> DelayVals] : n \in 0..MaxDelays}

\* C0 is a scalar (shape ()) or a 2-D field of shape (h, w); v[h][w] are
\* its entries, a scalar having the single entry v[1][1].
C0Inputs ==
    UNION {[scalar : {sc}, h : {hh}, w : {ww}, v : [1..hh -> [1..ww -> C0Vals]]] :
              <<sc, hh, ww>> \in
                  {q \in BOOLEAN \X (1..MaxPixels) \X (1..MaxPixels) :
                      /\ q[2] * q[3] <= MaxPixels
                      /\ q[1] => (q[2] = 1 /\ q[3] = 1)}}

(***************************************************************************)
(* get_delays(R, v0, v1, n_delays, mode)                                   *)
(***************************************************************************)
\* (1 - v0/v1) * R * c for a rational c, v1 # 0.
MismatchTimes(R, v0, v1, c) ==
    RatMul(RatMul(RatAdd(RatInt(1), Rat(-v0, v1)), RatInt(R)), c)

\* get_delays with the uniform schedule ending at (1 - v0/v1) * R, the end
\* of the quadric schedule.
get_delays_unitStop(R, v0, v1, n_delays, mode) ==
    IF mode = "uniform" THEN
        Value(Linspace(MismatchTimes(R, v0, v1, RatInt(0)),
                       MismatchTimes(R, v0, v1, RatInt(1)),
                       n_delays))
    ELSE IF mode = "quadric" THEN
        Value([i \in 1..n_delays |->
                  [coef |-> MismatchTimes(R, v0, v1, RatInt(1)),
                   radicand |-> Linspace(RatInt(0), RatInt(1), n_delays)[i]]])
    ELSE Raise("NotImplementedError")

get_delays(R, v0, v1, n_delays, mode) ==
    IF mode = "uniform" THEN
        Value(Linspace(MismatchTimes(R, v0, v1, RatInt(0)),
                       MismatchTimes(R, v0, v1, Rat(12, 10)),
                       n_delays))
    ELSE IF mode = "quadric" THEN
        \* coef * sqrt(radicand), kept symbolic
        Value([i \in 1..n_delays |->
                  [coef |-> MismatchTimes(R, v0, v1, RatInt(1)),
                   radicand |-> Linspace(RatInt(0), RatInt(1), n_delays)[i]]])
    ELSE Raise("NotImplementedError")

(***************************************************************************)
(* get_weights(C0, delays, attention)                                      *)
(***************************************************************************)
\* np.ones([n, 1, 1])
Ones(n) == [n |-> n, h |-> 1, w |-> 1, v |-> [i \in 1..n |-> <<<<RatInt(1)>>>>]]

\* The euclidean weights without the final rescaling by n_delays.
EuclideanWeights_noRescale(C0, delays) ==
    LET n_delays == Len(delays)
        arr(vv) == [n |-> n_delays, h |-> C0.h, w |-> C0.w, v |-> vv]
        distance(i, hh, ww) == (delays[i] - C0.v[hh][ww]) * (delays[i] - C0.v[hh][ww])
        e == arr([i \in 1..n_delays |-> [hh \in 1..C0.h |->
                 [ww \in 1..C0.w |-> Exp(distance(i, hh, ww))]]])
        esum == RatSumSeq(Flatten(e))
        weights == arr([i \in 1..n_delays |-> [hh \in 1..C0.h |->
                       [ww \in 1..C0.w |-> RatDiv(e.v[i][hh][ww], esum)]]])
    IN  Value(weights)

\* attention == 'euclidean', lines 167-169.
EuclideanWeights(C0, delays) ==
    LET n_delays == Len(delays)
        arr(vv) == [n |-> n_delays, h |-> C0.h, w |-> C0.w, v |-> vv]
        distance(i, hh, ww) == (delays[i] - C0.v[hh][ww]) * (delays[i] - C0.v[hh][ww])
        e == arr([i \in 1..n_delays |-> [hh \in 1..C0.h |->
                 [ww \in 1..C0.w |-> Exp(distance(i, hh, ww))]]])
        esum == RatSumSeq(Flatten(e))
        weights == arr([i \in 1..n_delays |-> [hh \in 1..C0.h |->
                       [ww \in 1..C0.w |-> RatDiv(e.v[i][hh][ww], esum)]]])
        wsum == RatSumSeq(Flatten(weights))
    IN  Value(arr([i \in 1..n_delays |-> [hh \in 1..C0.h |->
                  [ww \in 1..C0.w |->
                      RatMul(RatDiv(weights.v[i][hh][ww], wsum), RatInt(n_delays))]]]))

\* attention == 'onehot', lines 171-173.  delays has shape (n,), so
\* delays - C0 has shape (n,) for a scalar C0 and, by broadcasting against a
\* field of shape (h, w), shape (h, max(n, w)) when n = w, n = 1 or w = 1.
\* np.argmin without an axis is an index into the flattened difference.
OnehotWeights(C0, delays) ==
    LET n_delays == Len(delays)
        cols == IF n_delays = 1 THEN C0.w ELSE n_delays
        diff == [n |-> 1, h |-> C0.h, w |-> cols,
                 v |-> [i \in 1..1 |-> [hh \in 1..C0.h |-> [ww \in 1..cols |->
                          Abs(delays[IF n_delays = 1 THEN 1 ELSE ww]
                                - C0.v[hh][IF C0.w = 1 THEN 1 ELSE ww])]]]]
        idx == ArgMin(Flatten(diff))
    IN  IF ~(n_delays = C0.w \/ n_delays = 1 \/ C0.w = 1)
        THEN Raise("ValueError")      \* operands could not be broadcast
        ELSE IF C0.h * cols = 0
        THEN Raise("ValueError")      \* argmin of an empty sequence
        ELSE IF idx > n_delays
        THEN Raise("IndexError")      \* weights[idx] outside axis 0
        ELSE Value([n |-> n_delays, h |-> 1, w |-> 1,
                    v |-> [i \in 1..n_delays |->
                             <<<<IF i = idx THEN RatInt(1) ELSE RatInt(0)>>>>]])

\* get_weights falling back to the uniform weights for an unknown policy.
get_weights_fallback(C0, delays, attention) ==
    IF attention = "euclidean" THEN EuclideanWeights(C0, delays)
    ELSE IF attention = "onehot" THEN OnehotWeights(C0, delays)
    ELSE Value(Ones(Len(delays)))

get_weights(C0, delays, attention) ==
    IF attention = "uniform" THEN Value(Ones(Len(delays)))
    ELSE IF attention = "euclidean" THEN EuclideanWeights(C0, delays)
    ELSE IF attention = "onehot" THEN OnehotWeights(C0, delays)
    ELSE Raise("NotImplementedError")

(***************************************************************************)
(* The calls: one call of get_delays or get_weights on arguments drawn     *)
(* from the input sets.                                                    *)
(***************************************************************************)
DelaysArgs == [R : Radii, v0 : Speeds, v1 : Speeds, n_delays : 0..MaxDelays, mode : Modes]
WeightsArgs == [C0 : C0Inputs, delays : DelayArrays, attention : Attentions]

\* delay_and_sum is not running.
DasIdle ==
    /\ pc = "idle" /\ Image = <<>> /\ related_data = <<>>
    /\ s = 0 /\ t = 0 /\ k = 0 /\ outside = {}
    /\ iter = <<>> /\ todo = {}

InitCalls ==
    /\ \/ fn = "get_delays" /\ args \in DelaysArgs
       \/ fn = "get_weights" /\ args \in WeightsArgs
    /\ ret = NoResult
    /\ DasIdle

CallGetDelays ==
    /\ fn = "get_delays"
    /\ ret = NoResult
    /\ ret' = get_delays(args.R, args.v0, args.v1, args.n_delays, args.mode)
    /\ UNCHANGED <<fn, args>>
    /\ UNCHANGED <<dasVars, parVars>>

CallGetWeights ==
    /\ fn = "get_weights"
    /\ ret = NoResult
    /\ ret' = get_weights(args.C0, args.delays, args.attention)
    /\ UNCHANGED <<fn, args>>
    /\ UNCHANGED <<dasVars, parVars>>

NextCalls == CallGetDelays \/ CallGetWeights

SpecCalls == InitCalls /\ [][NextCalls]_vars

(***************************************************************************)
(* delay_and_sum(R_ring, T_sample, v0, pa_signal, x_vec, y_vec, d_delay,   *)
(*               ring_error)                                               *)
(*                                                                         *)
(* Lengths are integers: the ring radius, the grid coordinates, d_delay,   *)
(* ring_error and v0 * T_sample.  The transducer counts are divisors of 4, *)
(* for which sin and cos of the transducer angles are 0, 1 or -1.          *)
(* floor((sqrt(q) + m) / c) = floor((floor(sqrt(q)) + m) / c) for integers *)
(* q >= 0, m and c > 0, so the sample index is computed on integers.       *)
(*                                                                         *)
(* The function is compiled by numba.jit(nopython=True), which does not    *)
(* check array bounds: an index outside an array reads or writes the       *)
(* memory at the computed offset.  A build that checks bounds              *)
(* (NUMBA_BOUNDSCHECK, or the interpreter with the JIT disabled) raises    *)
(* IndexError instead.  Both outcomes are modelled.                        *)
(***************************************************************************)
SampleVals == {0, 1}            \* values of the samples of the sinogram
TransducerCounts == {1, 2}      \* pa_signal.shape[0]
RingRadii == {1, 2}             \* R_ring
SampleSteps == {1, 2}           \* v0, with T_sample = 1
DelayDistances == {0, 2}        \* d_delay
RingErrors == {0, 1}            \* entries of ring_error
GridStarts == {-1, 0}           \* first coordinate of a grid vector

\* The grid vectors: uniformly spaced, ascending, spacing 1.
GridVecs ==
    {[i \in 1..n |-> start + (i - 1)] : n \in 1..MaxGrid, start \in GridStarts}

\* The sinograms: shape (N, T).
Sinograms(N, T) == [1..N -> [1..T -> SampleVals]]

DasArgs ==
    UNION {[R_ring : RingRadii, T_sample : {1}, v0 : SampleSteps,
            pa_signal : Sinograms(N, T), x_vec : GridVecs, y_vec : GridVecs,
            d_delay : DelayDistances, ring_error : [1..N -> RingErrors]] :
              <<N, T>> \in TransducerCounts \X (1..MaxSamples)}

\* sin and cos of q quarter turns.
SinQ(q) == CASE q % 4 = 0 -> 0 [] q % 4 = 1 -> 1 [] q % 4 = 2 -> 0 [] q % 4 = 3 -> -1
CosQ(q) == CASE q % 4 = 0 -> 1 [] q % 4 = 1 -> 0 [] q % 4 = 2 -> -1 [] q % 4 = 3 -> 0

\* floor(sqrt(q)).
ISqrt(q) == CHOOSE r \in 0..q : r * r <= q /\ (r + 1) * (r + 1) > q

N_transducer == Len(args.pa_signal)             \* pa_signal.shape[0]
NumSamples == Len(args.pa_signal[1])            \* pa_signal.shape[1]
LoopH == Len(args.x_vec)                        \* H, the range of s
LoopW == Len(args.y_vec)                        \* W, the range of t
ImageShape == <<Len(args.x_vec), Len(args.y_vec)>>  \* np.zeros((len(x_vec), len(y_vec)))

\* angle_transducer[kk] - pi in quarter turns, kk = 0..N-1.
QuarterTurns(kk) == (4 * (kk + 1)) \div N_transducer - 2
x_transducer(kk) == args.R_ring * SinQ(QuarterTurns(kk))
y_transducer(kk) == args.R_ring * CosQ(QuarterTurns(kk))

\* floor(distance_to_transducer[kk]) for grid point (x_vec[ss], y_vec[tt]).
distance_to_transducer(ss, tt, kk) ==
    LET dx == x_transducer(kk) - args.x_vec[ss + 1]
        dy == y_transducer(kk) - args.y_vec[tt + 1]
    IN  ISqrt(dx * dx + dy * dy) - args.d_delay + args.ring_error[kk + 1]

\* id of line 70.
SampleIndex(ss, tt, kk) ==
    distance_to_transducer(ss, tt, kk) \div (args.v0 * args.T_sample)

\* The guard of line 71.
IndexAccepted(id) == id > 0 /\ id <= NumSamples

\* What the unchecked read pa_signal[kk, id] can load: the element at offset
\* kk * shape[1] + id of the row-major sinogram, or whatever lies behind the
\* sinogram when the offset is past its end.
Load(kk, id) ==
    LET off == kk * NumSamples + id
    IN  IF off < N_transducer * NumSamples
        THEN {args.pa_signal[(off \div NumSamples) + 1][(off % NumSamples) + 1]}
        ELSE SampleVals

RECURSIVE SumSeq(_)
SumSeq(sq) == IF sq = <<>> THEN 0 ELSE Head(sq) + SumSeq(Tail(sq))

\* related_data.mean()
Mean(sq) == Rat(SumSeq(sq), Len(sq))

Zeros(n) == [i \in 1..n |-> 0]

InitDas ==
    /\ fn = "delay_and_sum" /\ args \in DasArgs /\ ret = NoResult
    /\ pc = "entry" /\ Image = <<>> /\ related_data = <<>>
    /\ s = 0 /\ t = 0 /\ k = 0 /\ outside = {}
    /\ iter = <<>> /\ todo = {}

\* Lines 56-64: the allocations before the loops.
Allocate ==
    /\ pc = "entry"
    /\ Image' = [i \in 1..(ImageShape[1] * ImageShape[2]) |-> RatInt(0)]
    /\ related_data' = Zeros(N_transducer)
    /\ s' = 0 /\ t' = 0 /\ k' = 0
    /\ pc' = "loop"
    /\ UNCHANGED <<fn, args, ret, outside, parVars>>

\* Lines 70-72: the index is accepted and the sample is read.
ReadSample ==
    /\ pc = "loop" /\ k < N_transducer
    /\ IndexAccepted(SampleIndex(s, t, k))
    /\ \E v \in Load(k, SampleIndex(s, t, k)) :
           related_data' = [related_data EXCEPT ![k + 1] = v]
    /\ k' = k + 1
    /\ UNCHANGED <<fn, args, ret, pc, Image, s, t, outside, parVars>>

\* Line 72 under bounds checking: the column index is not inside the row.
ReadRaises ==
    /\ pc = "loop" /\ k < N_transducer
    /\ IndexAccepted(SampleIndex(s, t, k))
    /\ SampleIndex(s, t, k) >= NumSamples
    /\ pc' = "raised"
    /\ ret' = Raise("IndexError")
    /\ UNCHANGED <<fn, args, Image, related_data, s, t, k, outside, parVars>>

\* Lines 73-74: the index is rejected.
ZeroSample ==
    /\ pc = "loop" /\ k < N_transducer
    /\ ~IndexAccepted(SampleIndex(s, t, k))
    /\ related_data' = [related_data EXCEPT ![k + 1] = 0]
    /\ k' = k + 1
    /\ UNCHANGED <<fn, args, ret, pc, Image, s, t, outside, parVars>>

\* The index [tt, ss] is inside an array of shape ImageShape.
InShape(tt, ss) == tt < ImageShape[1] /\ ss < ImageShape[2]

\* The unchecked write Image[tt, ss] = v: the element at offset
\* tt * shape[1] + ss, which is memory outside Image when past its end.
Poke(img, tt, ss, v) ==
    LET off == tt * ImageShape[2] + ss
    IN  IF off < Len(img) THEN [img EXCEPT ![off + 1] = v] ELSE img

\* Line 75 and the loop steps of lines 66-67.
StorePixel ==
    /\ pc = "loop" /\ k = N_transducer
    /\ Image' = Poke(Image, t, s, Mean(related_data))
    /\ outside' = IF InShape(t, s) THEN outside ELSE outside \cup {<<t, s>>}
    /\ k' = 0
    /\ IF t + 1 < LoopW
       THEN t' = t + 1 /\ s' = s /\ pc' = pc
       ELSE /\ t' = 0 /\ s' = s + 1
            /\ pc' = IF s + 1 < LoopH THEN "loop" ELSE "return"
    /\ UNCHANGED <<fn, args, ret, related_data, parVars>>

\* Line 75 under bounds checking: [t, s] is not inside Image's shape.
StoreRaises ==
    /\ pc = "loop" /\ k = N_transducer
    /\ ~InShape(t, s)
    /\ pc' = "raised"
    /\ ret' = Raise("IndexError")
    /\ UNCHANGED <<fn, args, Image, related_data, s, t, k, outside, parVars>>

\* Line 76.
Return ==
    /\ pc = "return"
    /\ pc' = "done"
    /\ ret' = Value([shape |-> ImageShape, mem |-> Image])
    /\ UNCHANGED <<fn, args, Image, related_data, s, t, k, outside, parVars>>

Next ==
    \/ Allocate
    \/ ReadSample
    \/ ReadRaises
    \/ ZeroSample
    \/ StorePixel
    \/ StoreRaises
    \/ Return

Spec == InitDas /\ [][Next]_vars

(***************************************************************************)
(* The loop of lines 66-75 with its iterations distributed over workers,   *)
(* as a parallel loop over the grid points would run them: each worker     *)
(* takes any grid point not taken yet and runs the loop body for it.       *)
(* Image and related_data are the arrays allocated before the loop, shared *)
(* by all the iterations; s, t and k are per iteration.                    *)
(***************************************************************************)
Workers == {1, 2}

Idle == [st |-> "idle", s |-> 0, t |-> 0, k |-> 0]

GridPoints == (0..(LoopH - 1)) \X (0..(LoopW - 1))

ParArgs ==
    {a \in DasArgs :
        /\ a.v0 = 1 /\ a.d_delay = 0
        /\ \A i \in 1..Len(a.ring_error) : a.ring_error[i] = 0}

InitPar ==
    /\ fn = "delay_and_sum" /\ args \in ParArgs /\ ret = NoResult
    /\ pc = "entry" /\ Image = <<>> /\ related_data = <<>>
    /\ s = 0 /\ t = 0 /\ k = 0 /\ outside = {}
    /\ iter = [w \in Workers |-> Idle] /\ todo = {}

\* Lines 56-64, once, before the workers start.
ParAllocate ==
    /\ pc = "entry"
    /\ Image' = [i \in 1..(ImageShape[1] * ImageShape[2]) |-> RatInt(0)]
    /\ related_data' = Zeros(N_transducer)
    /\ pc' = "loop"
    /\ todo' = GridPoints
    /\ UNCHANGED <<fn, args, ret, s, t, k, outside, iter>>

\* Lines 66-67: a worker starts the iteration of a grid point.
Take(w) ==
    /\ pc = "loop" /\ iter[w].st = "idle"
    /\ \E g \in todo :
           /\ iter' = [iter EXCEPT ![w] = [st |-> "run", s |-> g[1], t |-> g[2], k |-> 0]]
           /\ todo' = todo \ {g}
    /\ UNCHANGED <<fn, args, ret, pc, Image, related_data, s, t, k, outside>>

Running(w) == pc = "loop" /\ iter[w].st = "run"

\* Lines 70-72 in worker w.
ParReadSample(w) ==
    /\ Running(w) /\ iter[w].k < N_transducer
    /\ IndexAccepted(SampleIndex(iter[w].s, iter[w].t, iter[w].k))
    /\ \E v \in Load(iter[w].k, SampleIndex(iter[w].s, iter[w].t, iter[w].k)) :
           related_data' = [related_data EXCEPT ![iter[w].k + 1] = v]
    /\ iter' = [iter EXCEPT ![w].k = @ + 1]
    /\ UNCHANGED <<fn, args, ret, pc, Image, s, t, k, outside, todo>>

\* Line 72 under bounds checking in worker w.
ParReadRaises(w) ==
    /\ Running(w) /\ iter[w].k < N_transducer
    /\ IndexAccepted(SampleIndex(iter[w].s, iter[w].t, iter[w].k))
    /\ SampleIndex(iter[w].s, iter[w].t, iter[w].k) >= NumSamples
    /\ pc' = "raised"
    /\ ret' = Raise("IndexError")
    /\ UNCHANGED <<fn, args, Image, related_data, s, t, k, outside, parVars>>

\* Lines 73-74 in worker w.
ParZeroSample(w) ==
    /\ Running(w) /\ iter[w].k < N_transducer
    /\ ~IndexAccepted(SampleIndex(iter[w].s, iter[w].t, iter[w].k))
    /\ related_data' = [related_data EXCEPT ![iter[w].k + 1] = 0]
    /\ iter' = [iter EXCEPT ![w].k = @ + 1]
    /\ UNCHANGED <<fn, args, ret, pc, Image, s, t, k, outside, todo>>

\* Line 75 in worker w, which ends the iteration.
ParStorePixel(w) ==
    /\ Running(w) /\ iter[w].k = N_transducer
    /\ Image' = Poke(Image, iter[w].t, iter[w].s, Mean(related_data))
    /\ outside' = IF InShape(iter[w].t, iter[w].s) THEN outside
                  ELSE outside \cup {<<iter[w].t, iter[w].s>>}
    /\ iter' = [iter EXCEPT ![w] = Idle]
    /\ UNCHANGED <<fn, args, ret, pc, related_data, s, t, k, todo>>

\* Line 75 under bounds checking in worker w.
ParStoreRaises(w) ==
    /\ Running(w) /\ iter[w].k = N_transducer
    /\ ~InShape(iter[w].t, iter[w].s)
    /\ pc' = "raised"
    /\ ret' = Raise("IndexError")
    /\ UNCHANGED <<fn, args, Image, related_data, s, t, k, outside, parVars>>

\* The end of the loop: every grid point is done.
Join ==
    /\ pc = "loop" /\ todo = {}
    /\ \A w \in Workers : iter[w].st = "idle"
    /\ pc' = "return"
    /\ UNCHANGED <<fn, args, ret, Image, related_data, s, t, k, outside, parVars>>

NextPar ==
    \/ ParAllocate
    \/ \E w \in Workers : Take(w)
    \/ \E w \in Workers : ParReadSample(w)
    \/ \E w \in Workers : ParReadRaises(w)
    \/ \E w \in Workers : ParZeroSample(w)
    \/ \E w \in Workers : ParStorePixel(w)
    \/ \E w \in Workers : ParStoreRaises(w)
    \/ Join
    \/ Return

SpecPar == InitPar /\ [][NextPar]_vars

(***************************************************************************)
(* Properties of get_delays and get_weights.                               *)
(***************************************************************************)
Returned(f) == fn = f /\ ret # NoResult

\* The weight of delay i at pixel (h, w) of a C0 field: the returned array
\* broadcast against the field.
WeightAt(wts, i, h, w) ==
    wts.v[i][IF wts.h = 1 THEN 1 ELSE h][IF wts.w = 1 THEN 1 ELSE w]

SinglePixel(C0) == C0.h = 1 /\ C0.w = 1

\* delay index i is hot at pixel (h, w): weight 1 there, weight 0 at every
\* other index, and no delay is closer to the pixel's C0.
HotAt(wts, C0, delays, i, h, w) ==
    /\ WeightAt(wts, i, h, w) = RatInt(1)
    /\ \A j \in (1..Len(delays)) \ {i} : WeightAt(wts, j, h, w) = RatInt(0)
    /\ \A j \in 1..Len(delays) :
           Abs(delays[i] - C0.v[h][w]) <= Abs(delays[j] - C0.v[h][w])

\* C3 as stated: onehot weights of a per-pixel C0 field and at least one
\* delay have, at every pixel, weight 1 on exactly one delay index, 0 on the
\* others, and the index minimises |delays[i] - C0| at that pixel.
C3_OnehotPerPixel ==
    (/\ Returned("get_weights") /\ args.attention = "onehot"
     /\ ~args.C0.scalar /\ Len(args.delays) >= 1) =>
        /\ ret.kind = "value"
        /\ \A h \in 1..args.C0.h, w \in 1..args.C0.w :
               \E i \in 1..Len(args.delays) :
                   HotAt(ret.val, args.C0, args.delays, i, h, w)

\* C3 amended: for a single C0 value and at least one delay, the onehot
\* weights have shape (n_delays, 1, 1), weight 1 on exactly one index, 0 on
\* the others, and that index is the first one minimising |delays[i] - C0|.
\* For a C0 field the call raises or returns one selection of that shape,
\* shared by all the pixels.
C3_OnehotScalar ==
    (Returned("get_weights") /\ args.attention = "onehot") =>
        /\ ret.kind = "value" =>
               /\ ret.val.n = Len(args.delays) /\ ret.val.h = 1 /\ ret.val.w = 1
               /\ \E i \in 1..Len(args.delays) :
                      /\ ret.val.v[i][1][1] = RatInt(1)
                      /\ \A j \in (1..Len(args.delays)) \ {i} :
                             ret.val.v[j][1][1] = RatInt(0)
        /\ (SinglePixel(args.C0) /\ Len(args.delays) >= 1) =>
               /\ ret.kind = "value"
               /\ \E i \in 1..Len(args.delays) :
                      /\ HotAt(ret.val, args.C0, args.delays, i, 1, 1)
                      /\ \A j \in 1..(i - 1) :
                             Abs(args.delays[j] - args.C0.v[1][1])
                                 > Abs(args.delays[i] - args.C0.v[1][1])

\* A tie between two delays: the first of them is selected.
C3_Witness ==
    /\ Returned("get_weights") /\ args.attention = "onehot"
    /\ args.C0.scalar /\ args.C0.v[1][1] = 1
    /\ args.delays = <<2, 0, 2>>
    /\ ret.kind = "value"
    /\ ret.val.v[1][1][1] = RatInt(1)

\* Sum of the weights of pixel (h, w) along the delay axis.
DelaySum(wts, h, w) == RatSumSeq([i \in 1..wts.n |-> wts.v[i][h][w]])

\* Sum of all the weights.
TotalSum(wts) == RatSumSeq(Flatten(wts))

AllPositive(wts) ==
    \A i \in 1..wts.n, h \in 1..wts.h, w \in 1..wts.w : RatPos(wts.v[i][h][w])

\* C4 as stated: euclidean weights of a per-pixel C0 field sum to n_delays
\* along the delay axis at every pixel and are strictly positive.
C4_EuclideanPerPixel ==
    (Returned("get_weights") /\ args.attention = "euclidean") =>
        /\ ret.kind = "value"
        /\ ret.val.h = args.C0.h /\ ret.val.w = args.C0.w
        /\ AllPositive(ret.val)
        /\ \A h \in 1..args.C0.h, w \in 1..args.C0.w :
               DelaySum(ret.val, h, w) = RatInt(Len(args.delays))

\* C4 amended: euclidean weights are strictly positive and sum to n_delays
\* over the whole returned array (all delays and all pixels together); along
\* the delay axis they sum to n_delays when C0 is a single value.
C4_EuclideanTotal ==
    (Returned("get_weights") /\ args.attention = "euclidean") =>
        /\ ret.kind = "value"
        /\ ret.val.n = Len(args.delays)
        /\ ret.val.h = args.C0.h /\ ret.val.w = args.C0.w
        /\ AllPositive(ret.val)
        /\ TotalSum(ret.val) = RatInt(Len(args.delays))
        /\ SinglePixel(args.C0) => DelaySum(ret.val, 1, 1) = RatInt(Len(args.delays))

\* Three delays at distances 1, 0, 1 of a scalar C0.
C4_Witness ==
    /\ Returned("get_weights") /\ args.attention = "euclidean"
    /\ args.C0.scalar /\ args.C0.v[1][1] = 1
    /\ args.delays = <<0, 1, 2>>
    /\ ret.kind = "value"
    /\ ret.val.v[2][1][1] = Rat(30, 64)

\* C6: get_delays raises NotImplementedError, and returns nothing, exactly
\* for the modes other than 'uniform' and 'quadric'; get_weights raises it
\* exactly for the policies other than 'uniform', 'onehot' and 'euclidean'.
C6_UnsupportedRaises ==
    /\ Returned("get_delays") =>
           (args.mode \notin {"uniform", "quadric"}
               <=> ret = Raise("NotImplementedError"))
    /\ Returned("get_weights") =>
           (args.attention \notin {"uniform", "onehot", "euclidean"}
               <=> ret = Raise("NotImplementedError"))

C6_Witness ==
    /\ Returned("get_weights") /\ args.attention = "softmax"
    /\ ret = Raise("NotImplementedError")

IsSorted(sq) == \A i, j \in 1..Len(sq) : i <= j => RatLeq(sq[i], sq[j])

UniformStop(a) == MismatchTimes(a.R, a.v0, a.v1, Rat(12, 10))

UniformSchedule(a, sq) ==
    /\ Len(sq) = a.n_delays
    /\ IsSorted(sq)
    /\ a.n_delays >= 1 => (sq[1] = RatInt(0) /\ sq[a.n_delays] = UniformStop(a))

\* C7 as stated: for mode 'uniform' and every R, v0, v1 and n_delays the
\* schedule is sorted ascending, has n_delays elements, starts at 0 and ends
\* at 1.2 * (1 - v0/v1) * R.
C7_UniformAlways ==
    (Returned("get_delays") /\ args.mode = "uniform") =>
        /\ ret.kind = "value"
        /\ UniformSchedule(args, ret.val)

\* C7 amended: for mode 'uniform', R >= 0, 0 <= v0 <= v1, v1 > 0 and
\* n_delays >= 2 the schedule is sorted ascending, has n_delays elements,
\* starts at 0 and ends at 1.2 * (1 - v0/v1) * R.
C7_UniformOrdered ==
    (/\ Returned("get_delays") /\ args.mode = "uniform"
     /\ args.R >= 0 /\ 0 <= args.v0 /\ args.v0 <= args.v1 /\ args.v1 > 0
     /\ args.n_delays >= 2) =>
        /\ ret.kind = "value"
        /\ UniformSchedule(args, ret.val)

C7_Witness ==
    /\ Returned("get_delays") /\ args.mode = "uniform"
    /\ args.R = 2 /\ args.v0 = 1 /\ args.v1 = 2 /\ args.n_delays = 3
    /\ ret.kind = "value"
    /\ ret.val = <<RatInt(0), Rat(3, 5), Rat(6, 5)>>

(***************************************************************************)
(* Properties of delay_and_sum.                                            *)
(***************************************************************************)
Transducers == 0..(N_transducer - 1)

\* The samples recorded by transducer kk: row kk of the sinogram.
RowSamples(kk) == {args.pa_signal[kk + 1][j] : j \in 1..NumSamples}

\* Sample id of transducer kk, for an id inside the row.
Recorded(kk, id) == args.pa_signal[kk + 1][id + 1]

RaisedByRead == pc = "raised" /\ k < N_transducer
RaisedByStore == pc = "raised" /\ k = N_transducer

\* C1: the contribution of transducer kk to the current grid point is a
\* recorded sample of row kk (sample idx, when the row has one) when
\* 1 <= idx <= num_samples, and 0 when idx <= 0 or idx > num_samples; the
\* read never fails and never takes the value of another row.
C1_ContributionOfOwnRow ==
    /\ ~RaisedByRead
    /\ pc = "loop" =>
           \A kk \in 0..(k - 1) :
               LET id == SampleIndex(s, t, kk)
               IN  IF id >= 1 /\ id <= NumSamples
                   THEN /\ related_data[kk + 1] \in RowSamples(kk)
                        /\ id < NumSamples => related_data[kk + 1] = Recorded(kk, id)
                   ELSE related_data[kk + 1] = 0

\* The value of grid point (x_vec[ss], y_vec[tt]): the mean over all the
\* transducers of sample idx of the transducer's row, 0 standing for the
\* sample whenever idx is 0, negative or not an index of the row.
OwnSample(ss, tt, kk) ==
    LET id == SampleIndex(ss, tt, kk)
    IN  IF id >= 1 /\ id < NumSamples THEN Recorded(kk, id) ELSE 0

PixelValue(ss, tt) ==
    Rat(SumSeq([i \in 1..N_transducer |-> OwnSample(ss, tt, i - 1)]), N_transducer)

\* No transducer of the grid point has the index num_samples, the one
\* accepted index that is not an index of the row.
InsideRows(ss, tt) == \A kk \in Transducers : SampleIndex(ss, tt, kk) # NumSamples

\* Element [tt, ss] of a returned image.
ElementAt(img, tt, ss) == img.mem[tt * img.shape[2] + ss + 1]

\* C2: the returned image has shape (len(y_vec), len(x_vec)), its element
\* [t, s] is the value of grid point (x_vec[s], y_vec[t]), and every write of
\* the loop is inside the allocated image.
C2_ImageLayout ==
    /\ outside = {}
    /\ ~RaisedByStore
    /\ (fn = "delay_and_sum" /\ pc = "done") =>
           /\ ret.val.shape = <<Len(args.y_vec), Len(args.x_vec)>>
           /\ \A ss \in 0..(Len(args.x_vec) - 1), tt \in 0..(Len(args.y_vec) - 1) :
                  InsideRows(ss, tt) => ElementAt(ret.val, tt, ss) = PixelValue(ss, tt)

AllZeroSinogram ==
    \A kk \in Transducers, j \in 1..NumSamples : args.pa_signal[kk + 1][j] = 0

\* C5: with an all-zero sinogram delay_and_sum returns an image, and the
\* image is zero everywhere.
C5_ZeroSignalZeroImage ==
    (fn = "delay_and_sum" /\ pc # "entry" /\ AllZeroSinogram) =>
        /\ pc # "raised"
        /\ \A i \in 1..Len(Image) : Image[i] = RatInt(0)

\* C8: the image the loop produces when its iterations run concurrently, in
\* any order, is the image of the sequential loop.
C8_OrderIndependent ==
    (/\ fn = "delay_and_sum" /\ pc = "done"
     /\ Len(args.x_vec) = Len(args.y_vec)
     /\ \A ss \in 0..(LoopH - 1), tt \in 0..(LoopW - 1) : InsideRows(ss, tt)) =>
        \A ss \in 0..(LoopH - 1), tt \in 0..(LoopW - 1) :
            ElementAt(ret.val, tt, ss) = PixelValue(ss, tt)

\* C9: the column index of every read pa_signal[k, id] is inside the row.
C9_ReadInsideRow ==
    (/\ fn = "delay_and_sum" /\ pc = "loop" /\ k < N_transducer
     /\ IndexAccepted(SampleIndex(s, t, k))) =>
        (0 <= SampleIndex(s, t, k) /\ SampleIndex(s, t, k) < NumSamples)

\* C10: the value stored for a grid point is the sum of the contributions of
\* its own transducers divided by N_transducer, a contribution being the
\* recorded sample idx of the transducer's row or 0 when there is none; it is
\* 0 when no transducer has an index in the recorded window.
C10_PixelIsMeanOfOwn ==
    /\ ~RaisedByRead
    /\ (fn = "delay_and_sum" /\ pc = "loop" /\ k = N_transducer) =>
           Mean(related_data) = PixelValue(s, t)

====
